---- MODULE Spec2Model ----
(***************************************************************************)
(* Model of the apology generator of src/app.py: the generate-button       *)
(* handler of main(), the memoised Gemini call with its retry loop, the    *)
(* GPT-2 fallback, the session history and handle_feedback.                *)
(*                                                                         *)
(* Strings that the code transforms (strip, lower) are sequences of        *)
(* one-character strings, so that the transformations are computed.        *)
(* One browser session is modelled: st.session_state holds models,         *)
(* gemini_over_limit and history; the lru_cache belongs to the function    *)
(* generate_with_gemini.                                                   *)
(***************************************************************************)
EXTENDS Naturals, Sequences, FiniteSets

\* ---------------------------------------------------------------- bounds
\* Largest number of history entries explored (Submit is disabled beyond).
MaxHistory == 2
\* The per-request call counters saturate here (above MAX_RETRIES, so that
\* an excess of calls stays visible).
CallCap == 4

\* ------------------------------------------------------ program constants
CACHE_SIZE == 100
MAX_RETRIES == 2

\* ------------------------------------------------------------ the inputs
\* What the user can type into the text input (line 98); the last is blank.
Situations == { <<"A", " ">>, <<"a">>, <<"b">>, <<" ">> }
\* Options of the selectbox (line 99) that the model explores.
Funny == <<"f", "u", "n", "n", "y">>
Tones == { Funny }
\* Texts response.text of Gemini can be (line 47); <<>> is the empty text.
GeminiTexts == { <<>>, <<"g">>, <<"h">> }
\* What GPT-2 generates after the prompt (line 66, before strip()).
Gpt2Texts == { <<" ">>, <<" ", "s">> }
\* The string generate_with_gpt2 returns when the pipeline raises (line 69).
FAIL_MSG == <<"f", "a", "i", "l", "e", "d">>

\* What one call of model.generate_content can do (lines 40-54): return a
\* text, or raise; api: the exception is a genai.APIError; quota: its
\* message contains "quota".
GeminiOutcomes ==
    [kind : {"text"}, text : GeminiTexts]
      \cup [kind : {"error"}, api : BOOLEAN, quota : BOOLEAN]
\* What one call of the GPT-2 pipeline can do (lines 61-69).
Gpt2Outcomes == [kind : {"text"}, text : Gpt2Texts] \cup { [kind |-> "error"] }

\* --------------------------------------------------------- str.lower()
LowerChar(c) == IF c = "A" THEN "a" ELSE IF c = "B" THEN "b" ELSE c
Lower(s) == [i \in 1..Len(s) |-> LowerChar(s[i])]

\* --------------------------------------------------------- str.strip()
IsSpace(c) == c = " "
RECURSIVE LStrip(_)
LStrip(s) == IF s # <<>> /\ IsSpace(Head(s)) THEN LStrip(Tail(s)) ELSE s
RECURSIVE RStrip(_)
RStrip(s) ==
    IF s # <<>> /\ IsSpace(s[Len(s)]) THEN RStrip(SubSeq(s, 1, Len(s) - 1)) ELSE s
Strip(s) == RStrip(LStrip(s))

\* The arguments main passes to both generators (lines 112, 121), which are
\* the key of the lru_cache.
NormKey_ToneOnly(s, t) == [situation |-> <<>>, tone |-> Lower(t)]
NormKey(s, t) == [situation |-> Lower(Strip(s)), tone |-> Lower(t)]

VARIABLES
    started,            \* 'models' etc. are in st.session_state
    geminiAvail,        \* st.session_state.models['gemini'] is not None
    gemini_over_limit,  \* st.session_state.gemini_over_limit
    history,            \* st.session_state.history
    cache,              \* lru_cache of generate_with_gemini, LRU first
    now,                \* datetime.now(), as a counter
    pc,                 \* "idle", or the backend call the handler is in
    situation,          \* the handler's locals
    tone,
    apology,
    model_used,
    attempt,            \* loop variable of generate_with_gemini
    outcome,            \* what the last handler run showed
    source,             \* where apology came from
    primaryCalls,       \* generate_content calls of this request
    secondaryCalls,     \* pipeline calls of this request
    quotaSeen,          \* some Gemini call raised a quota error
    gpt2Raised          \* the pipeline call of this request raised

vars == << started, geminiAvail, gemini_over_limit, history, cache, now, pc,
           situation, tone, apology, model_used, attempt, outcome, source,
           primaryCalls, secondaryCalls, quotaSeen, gpt2Raised >>

\* ------------------------------------------------------------ lru_cache
CacheHas(c, k) == \E i \in 1..Len(c) : c[i].key = k
CacheIdx(c, k) == CHOOSE i \in 1..Len(c) : c[i].key = k
CacheGet(c, k) == c[CacheIdx(c, k)].val
Without(c, i) == SubSeq(c, 1, i - 1) \o SubSeq(c, i + 1, Len(c))
\* A hit moves the entry to the most recently used end.
CacheTouch(c, k) == Append(Without(c, CacheIdx(c, k)), c[CacheIdx(c, k)])
\* A miss whose call returned stores the result, evicting the least
\* recently used entry of a full cache.
CachePut_SkipEmpty(c, k, v) ==
    LET e == [key |-> k, val |-> v]
    IN  IF v = <<>> THEN c
        ELSE IF Len(c) >= CACHE_SIZE THEN Append(Tail(c), e) ELSE Append(c, e)
CachePut(c, k, v) ==
    LET e == [key |-> k, val |-> v]
    IN  IF Len(c) >= CACHE_SIZE THEN Append(Tail(c), e) ELSE Append(c, e)
\* A call that raises stores nothing: lru_cache memoises returned values only.
CacheOnRaise_Empty(c, k) == Append(c, [key |-> k, val |-> <<>>])
CacheOnRaise(c, k) == c
\* generate_with_gpt2 (line 57) carries no lru_cache: its result is not stored.
Gpt2Memo_Cached(c, k, v) ==
    IF CacheHas(c, k) THEN c ELSE Append(c, [key |-> k, val |-> v])
Gpt2Memo(c, k, v) == c

\* ------------------------------------------------------- session state
\* Lines 85-86: the flag is initialised only when absent.
InitOverLimit_Always(present, cur) == FALSE
InitOverLimit(present, cur) == IF present THEN cur ELSE FALSE
\* Lines 87-88.
InitHistory(present, cur) == IF present THEN cur ELSE <<>>

\* Line 110: the condition under which main calls generate_with_gemini.
UsePrimary_NoQuotaCheck(over, avail) == avail
UsePrimary_NoAvailCheck(over, avail) == ~over
UsePrimary(over, avail) == ~over /\ avail

\* Line 119: GPT-2 is called when apology is empty (models['gpt2'] is the
\* pipeline object, which is truthy).
NeedsSecondary_Always(ap) == TRUE
NeedsSecondary(ap) == ap = <<>>

\* Lines 49 and 115: "quota" in str(e).lower(), for the exception of outcome r.
QuotaError_Any(r) == TRUE
QuotaError(r) == r.quota

\* Line 38: the next value of the loop variable.
NextAttempt_Stuck(a) == a
NextAttempt(a) == a + 1
\* Line 53: the attempt after which a transient error is re-raised.
LastAttempt_OffByOne(a) == a = MAX_RETRIES
LastAttempt_Always(a) == TRUE
LastAttempt(a) == a = MAX_RETRIES - 1
\* Lines 48-54: the loop goes on after the exception of outcome r, raised in
\* attempt a, when it is an APIError without "quota" before the last attempt.
Retries_QuotaToo(r, a) == r.api /\ ~LastAttempt(a)
Retries(r, a) == r.api /\ ~QuotaError(r) /\ ~LastAttempt(a)

\* Lines 126-134.
NewEntry_OneLabel(id, s, t, ap, mu) ==
    [id |-> id, situation |-> s, tone |-> t, apology |-> ap, model |-> "Gemini",
     feedback |-> <<>>]
NewEntry(id, s, t, ap, mu) ==
    [id |-> id, situation |-> s, tone |-> t, apology |-> ap, model |-> mu,
     feedback |-> <<>>]
AppendEntry_Front(h, e) == <<e>> \o h
AppendEntry(h, e) == Append(h, e)

\* Lines 71-76: the first entry with this id gets the feedback (<<v>>;
\* <<>> is None).
RECURSIVE FirstMatch_Default(_, _, _)
FirstMatch_Default(h, entry_id, i) ==
    IF i > Len(h) THEN Len(h)
    ELSE IF h[i].id = entry_id THEN i ELSE FirstMatch_Default(h, entry_id, i + 1)
RECURSIVE FirstMatch(_, _, _)
FirstMatch(h, entry_id, i) ==
    IF i > Len(h) THEN 0
    ELSE IF h[i].id = entry_id THEN i ELSE FirstMatch(h, entry_id, i + 1)
SetFeedback_Toggle(entry, is_positive) ==
    [entry EXCEPT !.feedback = IF @ = <<is_positive>> THEN <<>> ELSE <<is_positive>>]
SetFeedback(entry, is_positive) == [entry EXCEPT !.feedback = <<is_positive>>]
handle_feedback(h, entry_id, is_positive) ==
    LET idx == FirstMatch(h, entry_id, 1)
    IN  IF idx = 0 THEN h
        ELSE [h EXCEPT ![idx] = SetFeedback(h[idx], is_positive)]

Bump(n) == IF n < CallCap THEN n + 1 ELSE n

\* ------------------------------------------------------------- actions
Init ==
    /\ started = FALSE
    /\ geminiAvail = FALSE
    /\ gemini_over_limit = FALSE
    /\ history = <<>>
    /\ cache = <<>>
    /\ now = 1
    /\ pc = "idle"
    /\ situation = <<>>
    /\ tone = <<>>
    /\ apology = <<>>
    /\ model_used = ""
    /\ attempt = 0
    /\ outcome = "none"
    /\ source = "none"
    /\ primaryCalls = 0
    /\ secondaryCalls = 0
    /\ quotaSeen = FALSE
    /\ gpt2Raised = FALSE

\* Lines 124-162 of main: the entry is appended and the text shown when
\* apology is non-empty, the error is shown otherwise.
Finish(ap, mu) ==
    /\ pc' = "idle"
    /\ apology' = ap
    /\ model_used' = mu
    /\ IF ap # <<>>
       THEN /\ history' = AppendEntry(history, NewEntry(now, situation', tone', ap, mu))
            /\ now' = now + 1
            /\ outcome' = "done"
       ELSE /\ outcome' = "failed"
            /\ UNCHANGED << history, now >>

\* Lines 119-122 of main, after the Gemini branch has ended with apology ap.
AfterPrimary(ap, mu) ==
    IF NeedsSecondary(ap)
    THEN /\ pc' = "gpt2"
         /\ apology' = ap
         /\ model_used' = mu
         /\ outcome' = "none"
         /\ UNCHANGED << history, now >>
    ELSE Finish(ap, mu)

\* The first run of main (lines 83-88): configure_models builds the GPT-2
\* pipeline and tries to build the Gemini model; a failure leaves
\* models['gemini'] None (lines 23-28).
Startup ==
    /\ ~started
    /\ started' = TRUE
    /\ geminiAvail' \in BOOLEAN
    /\ gemini_over_limit' = InitOverLimit(started, gemini_over_limit)
    /\ history' = InitHistory(started, history)
    /\ UNCHANGED << cache, now, pc, situation, tone, apology, model_used, attempt,
                    outcome, source, primaryCalls, secondaryCalls, quotaSeen,
                    gpt2Raised >>

\* A run of main with the generate button pressed (lines 83-88, 101-117),
\* up to the first backend call or, on a cache hit, to the end.
Submit(s, t) ==
    /\ started
    /\ pc = "idle"
    /\ Len(history) < MaxHistory
    /\ situation' = s
    /\ tone' = t
    /\ attempt' = 0
    /\ primaryCalls' = 0
    /\ secondaryCalls' = 0
    /\ gpt2Raised' = FALSE
    /\ gemini_over_limit' = InitOverLimit(started, gemini_over_limit)
    /\ UNCHANGED << started, geminiAvail, quotaSeen >>
    /\ IF Strip(s) = <<>>
       THEN \* lines 102-104
            /\ outcome' = "rejected"
            /\ source' = "none"
            /\ apology' = <<>>
            /\ model_used' = ""
            /\ UNCHANGED << history, cache, now, pc >>
       ELSE IF UsePrimary(gemini_over_limit', geminiAvail)
       THEN IF CacheHas(cache, NormKey(s, t))
            THEN \* lru_cache hit: generate_with_gemini's body does not run
                 /\ cache' = CacheTouch(cache, NormKey(s, t))
                 /\ source' = "cache"
                 /\ AfterPrimary(CacheGet(cache, NormKey(s, t)), "Gemini")
            ELSE /\ pc' = "gemini"
                 /\ source' = "none"
                 /\ outcome' = "none"
                 /\ apology' = <<>>
                 /\ model_used' = ""
                 /\ UNCHANGED << history, cache, now >>
       ELSE /\ source' = "none"
            /\ UNCHANGED cache
            /\ AfterPrimary(<<>>, "")

\* One iteration of the loop of generate_with_gemini (lines 38-54) and, when
\* the function returns or raises, the rest of main up to the GPT-2 call.
GeminiAttempt(r) ==
    /\ pc = "gemini"
    /\ primaryCalls' = Bump(primaryCalls)
    /\ UNCHANGED << started, geminiAvail, situation, tone, secondaryCalls,
                    gpt2Raised >>
    /\ IF r.kind = "text"
       THEN \* line 47; lru_cache stores the returned value
            /\ cache' = CachePut(cache, NormKey(situation, tone), r.text)
            /\ source' = "gemini"
            /\ AfterPrimary(r.text, "Gemini")
            /\ UNCHANGED << gemini_over_limit, attempt, quotaSeen >>
       ELSE IF Retries(r, attempt)
       THEN \* lines 52-53: logged, next iteration
            /\ attempt' = NextAttempt(attempt)
            /\ UNCHANGED << gemini_over_limit, history, cache, now, pc, apology,
                            model_used, outcome, source, quotaSeen >>
       ELSE \* the exception reaches main (lines 49-51, 53-54, 114-117); an
            \* exception that is no APIError is not caught in the loop
            /\ gemini_over_limit' = (gemini_over_limit \/ QuotaError(r))
            /\ quotaSeen' = (quotaSeen \/ r.quota)
            /\ cache' = CacheOnRaise(cache, NormKey(situation, tone))
            /\ AfterPrimary(<<>>, "")
            /\ UNCHANGED << attempt, source >>

\* generate_with_gpt2 (lines 57-69) and the rest of main (lines 122-162).
Gpt2Result(r) == IF r.kind = "text" THEN Strip(r.text) ELSE FAIL_MSG
Gpt2Call(r) ==
    /\ pc = "gpt2"
    /\ secondaryCalls' = Bump(secondaryCalls)
    /\ source' = "gpt2"
    /\ gpt2Raised' = (r.kind = "error")
    /\ cache' = Gpt2Memo(cache, NormKey(situation, tone), Gpt2Result(r))
    /\ UNCHANGED << started, geminiAvail, gemini_over_limit, situation, tone,
                    attempt, primaryCalls, quotaSeen >>
    /\ Finish(Gpt2Result(r), "GPT-2")

\* A click on one of the two feedback buttons (lines 146-160), which main
\* renders for the entry it has just appended; the callback runs and main
\* is run again without the generate button, so the result is not shown.
Feedback(is_positive) ==
    /\ started
    /\ pc = "idle"
    /\ outcome = "done"
    /\ history' = handle_feedback(InitHistory(started, history),
                                  history[Len(history)].id, is_positive)
    /\ gemini_over_limit' = InitOverLimit(started, gemini_over_limit)
    /\ outcome' = "none"
    /\ UNCHANGED << started, geminiAvail, cache, now, pc, situation, tone, apology,
                    model_used, attempt, source, primaryCalls, secondaryCalls,
                    quotaSeen, gpt2Raised >>

Next ==
    \/ Startup
    \/ \E s \in Situations, t \in Tones : Submit(s, t)
    \/ \E r \in GeminiOutcomes : GeminiAttempt(r)
    \/ \E r \in Gpt2Outcomes : Gpt2Call(r)
    \/ \E v \in BOOLEAN : Feedback(v)

Spec == Init /\ [][Next]_vars

\* Every backend call returns: a handler that is in a backend call goes on.
FairSpec ==
    /\ Spec
    /\ WF_vars(\E r \in GeminiOutcomes : GeminiAttempt(r))
    /\ WF_vars(\E r \in Gpt2Outcomes : Gpt2Call(r))

\* ------------------------------------------------- what the claims speak of
\* The normalised key of a request: the situation trimmed and lowercased, the
\* tone lowercased.
ClaimKey(s, t) == << Lower(Strip(s)), Lower(t) >>
EntryKey(e) == ClaimKey(e.situation, e.tone)
\* A submission of a non-blank situation (a request) is the step taken.
Request(s, t) == Submit(s, t) /\ Strip(s) # <<>>
SomeRequest == \E s \in Situations, t \in Tones : Request(s, t)
\* A request is being handled, or is the last thing that was handled.
InRequest == pc # "idle" \/ outcome \in {"done", "failed"}
\* The entries appended before the request that is current.
Prior == IF pc = "idle" /\ outcome = "done"
         THEN SubSeq(history, 1, Len(history) - 1) ELSE history
\* The step ends a request.
RequestEnds ==
    \/ \E r \in Gpt2Outcomes : Gpt2Call(r)
    \/ (\E r \in GeminiOutcomes : GeminiAttempt(r)) /\ pc' = "idle"
    \/ SomeRequest /\ pc' = "idle"

C3_FailureIsReported ==
    (pc = "idle" /\ gpt2Raised) => outcome = "failed"

\* C4: a request appends one history entry if it ended with a text from the
\* cache or from a backend, and none otherwise.
C4_EntryIffSuccess ==
    [][ RequestEnds
          => ( /\ Len(history') \in {Len(history), Len(history) + 1}
               /\ Len(history') = Len(history) + 1
                    <=> (apology' # <<>> /\ ~gpt2Raised') ) ]_vars

\* C5: a request makes at most MAX_RETRIES Gemini calls, and the loop
\* variable counts the calls of this request only.
C5_RetriesPerRequest ==
    /\ primaryCalls <= MAX_RETRIES
    /\ pc = "gemini" => (attempt = primaryCalls /\ attempt < MAX_RETRIES)

\* A request has used both attempts after an earlier request had lost its
\* Gemini phase to errors (it was served by GPT-2 and nothing was cached).
C5_Witness ==
    /\ geminiAvail
    /\ ~quotaSeen
    /\ primaryCalls = MAX_RETRIES
    /\ \E i \in 1..Len(Prior) :
          /\ Prior[i].model = "GPT-2"
          /\ ~CacheHas(cache, NormKey(Prior[i].situation, Prior[i].tone))

\* C6: no step resets gemini_over_limit.
C6_QuotaFlagMonotonic ==
    [][ gemini_over_limit => gemini_over_limit' ]_vars

\* The flag is set, and a later request has been completed and rated.
C6_Witness ==
    /\ gemini_over_limit
    /\ pc = "idle"
    /\ primaryCalls = 0
    /\ Len(history) >= 1
    /\ history[Len(history)].feedback # <<>>

\* Entry ids handle_feedback can be called with: those of the entries and
\* some that no entry has.
EntryIds == 0..(MaxHistory + 2)

\* C7: on every history the handler reaches, for every id and value, applying
\* handle_feedback twice gives what applying it once gives.
C7_FeedbackIdempotent ==
    \A id \in EntryIds, v \in BOOLEAN :
        handle_feedback(handle_feedback(history, id, v), id, v)
            = handle_feedback(history, id, v)

\* Feedback has been recorded in a history of two entries.
C7_Witness ==
    /\ Len(history) = 2
    /\ history[1].feedback # <<>>
    /\ history[2].feedback = <<FALSE>>

\* C8: when the Gemini model could not be built, start-up has completed all
\* the same, no Gemini call is made and nothing is cached, and every request
\* is served by one GPT-2 call.
C8_SecondaryOnly ==
    (started /\ ~geminiAvail)
        => ( /\ pc \in {"idle", "gpt2"}
             /\ primaryCalls = 0
             /\ cache = <<>>
             /\ (outcome \in {"done", "failed"}
                   => (source = "gpt2" /\ secondaryCalls = 1)) )

\* Without Gemini, a request has been served by GPT-2.
C8_Witness ==
    /\ started
    /\ ~geminiAvail
    /\ outcome = "done"
    /\ source = "gpt2"
    /\ ~gpt2Raised

\* The entries of h, their feedback aside.
NoFeedback(h) == [i \in 1..Len(h) |-> [h[i] EXCEPT !.feedback = <<>>]]

\* C9: a step leaves the history alone, or appends one entry to its end, or
\* changes only feedback fields; only a request appends.
C9_HistoryAppendOnly ==
    [][ /\ \/ history' = history
           \/ /\ Len(history') = Len(history) + 1
              /\ SubSeq(history', 1, Len(history)) = history
           \/ /\ Len(history') = Len(history)
              /\ NoFeedback(history') = NoFeedback(history)
        /\ Len(history') # Len(history) => RequestEnds ]_vars

\* An entry has been appended behind an entry that carries feedback.
C9_Witness ==
    /\ Len(history) = 2
    /\ history[1].feedback # <<>>
    /\ history[1].id < history[2].id

\* C10: a request that is in a backend call reaches Done or Failed, after at
\* most MAX_RETRIES Gemini calls followed by at most one GPT-2 call.
C10_RequestTerminates ==
    /\ [](/\ primaryCalls <= MAX_RETRIES
          /\ secondaryCalls <= 1
          /\ (pc = "gemini" => secondaryCalls = 0))
    /\ (pc # "idle") ~> (pc = "idle" /\ outcome \in {"done", "failed"})

\* A request has failed after the longest path: MAX_RETRIES Gemini calls and
\* the GPT-2 call.
C10_Witness ==
    /\ pc = "idle"
    /\ outcome = "failed"
    /\ primaryCalls = MAX_RETRIES
    /\ secondaryCalls = 1

\* The outcomes of a Gemini call that are errors: with "quota" in the
\* message, and APIErrors without.
QuotaOutcomes == { r \in GeminiOutcomes : r.kind = "error" /\ r.quota }
TransientOutcomes == { r \in GeminiOutcomes : r.kind = "error" /\ r.api /\ ~r.quota }

\* C11: a Gemini call that raises a quota error sets the flag and ends the
\* Gemini phase of the request whatever attempts are left: the handler goes
\* to the GPT-2 call.
C11_QuotaAbortsRetries ==
    [][ \A r \in QuotaOutcomes :
          GeminiAttempt(r)
            => ( /\ gemini_over_limit'
                 /\ pc' = "gpt2"
                 /\ attempt' = attempt
                 /\ secondaryCalls' = 0 ) ]_vars

\* The first attempt of a request raised the quota error: the request waits
\* for GPT-2 with one Gemini call made and one attempt unused.
C11_Witness ==
    /\ pc = "gpt2"
    /\ gemini_over_limit
    /\ primaryCalls = 1
    /\ attempt = 0
    /\ attempt < MAX_RETRIES - 1

C13_FlagOnlyByQuota ==
    /\ [](gemini_over_limit => quotaSeen)
    /\ [][ gemini_over_limit' # gemini_over_limit
             => \E r \in QuotaOutcomes : GeminiAttempt(r) ]_vars

\* With the flag still false: a request has lost both Gemini attempts and its
\* GPT-2 call, after a request that was served and rated.
C13_Witness ==
    /\ ~gemini_over_limit
    /\ pc = "idle"
    /\ primaryCalls = MAX_RETRIES
    /\ gpt2Raised
    /\ Len(history) = 2
    /\ history[1].feedback # <<>>

\* The step is the GPT-2 call of a request.
SecondaryCall == \E r \in Gpt2Outcomes : Gpt2Call(r)

\* C14: a request calls GPT-2 at most once and does not call it again after a
\* failure; the call is made only when the Gemini phase is over and has left
\* apology empty, and never in a request that ends with Gemini's text.
C14_SecondaryOnceAfterPrimary ==
    /\ [](/\ secondaryCalls <= 1
          /\ (pc = "gemini" => secondaryCalls = 0)
          /\ (pc = "idle" /\ source \in {"gemini", "cache"} => secondaryCalls = 0))
    /\ [][ SecondaryCall
             => ( /\ pc = "gpt2"
                  /\ apology = <<>>
                  /\ secondaryCalls = 0
                  /\ pc' = "idle" ) ]_vars

\* After two failed Gemini attempts the GPT-2 call raised, and the request
\* is over with that one GPT-2 call.
C14_Witness ==
    /\ pc = "idle"
    /\ gpt2Raised
    /\ primaryCalls = MAX_RETRIES
    /\ secondaryCalls = 1

C16_FeedbackFrame ==
    \A id \in EntryIds, v \in BOOLEAN :
        LET h2 == handle_feedback(history, id, v)
        IN  /\ Len(h2) = Len(history)
            /\ \A i \in 1..Len(history) :
                  h2[i] = IF history[i].id = id
                          THEN [history[i] EXCEPT !.feedback = <<v>>]
                          ELSE history[i]
            /\ (\A i \in 1..Len(history) : history[i].id # id) => h2 = history

\* Feedback has been given for the first of two entries and not for the
\* second.
C16_Witness ==
    /\ Len(history) = 2
    /\ history[1].feedback = <<TRUE>>
    /\ history[2].feedback = <<>>

\* The texts generate_with_gpt2 can return.
Gpt2Returns == { Gpt2Result(r) : r \in Gpt2Outcomes }

\* C17: the label of every entry is "Gemini" exactly when its text is one
\* Gemini returned (in that request or, through the cache, before) and
\* "GPT-2" exactly when generate_with_gpt2 returned it in that request.
C17_LabelIsBackend ==
    /\ \A i \in 1..Len(history) :
          /\ history[i].model \in {"Gemini", "GPT-2"}
          /\ history[i].model = "Gemini" <=> history[i].apology \in GeminiTexts
          /\ history[i].model = "GPT-2" <=> history[i].apology \in Gpt2Returns
    /\ (pc = "idle" /\ outcome = "done")
          => LET e == history[Len(history)]
             IN  /\ e.apology = apology
                 /\ e.model = "Gemini" <=> source \in {"gemini", "cache"}
                 /\ e.model = "GPT-2" <=> source = "gpt2"

\* The history holds an entry of each backend; the second request called
\* Gemini first and was served by GPT-2.
C17_Witness ==
    /\ pc = "idle"
    /\ outcome = "done"
    /\ Len(history) = 2
    /\ history[1].model = "Gemini"
    /\ history[2].model = "GPT-2"
    /\ primaryCalls = 1

\* C18: a Gemini call that raises leaves the cache as it was, so that the key
\* of a request whose Gemini phase ended in an error is not cached; and a
\* request whose key is not cached, submitted while the flag is false and
\* Gemini exists, starts the Gemini loop at attempt 0.
C18_ErrorNotCached ==
    /\ [](/\ pc = "gemini" => ~CacheHas(cache, NormKey(situation, tone))
          /\ (pc = "gpt2" /\ primaryCalls >= 1 /\ source = "none")
                => ~CacheHas(cache, NormKey(situation, tone)))
    /\ [][ /\ \A r \in GeminiOutcomes :
                (r.kind = "error" /\ GeminiAttempt(r)) => cache' = cache
           /\ \A s \in Situations, t \in Tones :
                ( /\ Request(s, t)
                  /\ UsePrimary(gemini_over_limit, geminiAvail)
                  /\ ~CacheHas(cache, NormKey(s, t)) )
                => ( /\ pc' = "gemini"
                     /\ attempt' = 0
                     /\ primaryCalls' = 0 ) ]_vars

\* The request that GPT-2 served after Gemini's errors has been submitted
\* again, typed as before or not, and is in the Gemini loop at attempt 0.
C18_Witness ==
    /\ geminiAvail
    /\ ~gemini_over_limit
    /\ pc = "gemini"
    /\ attempt = 0
    /\ primaryCalls = 0
    /\ Len(history) = 1
    /\ history[1].model = "GPT-2"
    /\ EntryKey(history[1]) = ClaimKey(situation, tone)

\* C19: when Gemini returns the empty text, the empty text is cached and the
\* request goes to the GPT-2 call; a request whose key is cached with the
\* empty text makes no Gemini call, goes to a GPT-2 call of its own and
\* leaves the entry cached.
C19_EmptyTextMemoised ==
    [][ /\ \A r \in GeminiOutcomes :
             (r.kind = "text" /\ r.text = <<>> /\ GeminiAttempt(r))
             => ( /\ pc' = "gpt2"
                  /\ CacheHas(cache', NormKey(situation, tone))
                  /\ CacheGet(cache', NormKey(situation, tone)) = <<>> )
        /\ \A s \in Situations, t \in Tones :
             ( /\ Request(s, t)
               /\ CacheHas(cache, NormKey(s, t))
               /\ CacheGet(cache, NormKey(s, t)) = <<>> )
             => ( /\ pc' = "gpt2"
                  /\ primaryCalls' = 0
                  /\ secondaryCalls' = 0
                  /\ CacheHas(cache', NormKey(s, t))
                  /\ CacheGet(cache', NormKey(s, t)) = <<>> ) ]_vars

\* A request has hit the cached empty text, with Gemini still in use, and
\* waits for GPT-2 without a Gemini call; GPT-2 served the earlier one.
C19_Witness ==
    /\ geminiAvail
    /\ ~gemini_over_limit
    /\ pc = "gpt2"
    /\ source = "cache"
    /\ primaryCalls = 0
    /\ Len(history) = 1
    /\ history[1].model = "GPT-2"
    /\ EntryKey(history[1]) = ClaimKey(situation, tone)

====
